---------------------------- MODULE Spec2Model ----------------------------
(***************************************************************************)
(* Model of the Moving Transform widget of orange3-timeseries              *)
(* (orangecontrib/timeseries/widgets/owmovingtransform.py): the catalog of *)
(* aggregations, the three engines (sliding window, sequential blocks,     *)
(* period aggregation), the dispatcher `commit` and the handlers that      *)
(* change the widget's settings and the per-variable selection.            *)
(*                                                                         *)
(* Column values are kept symbolic: a cell records which original rows it  *)
(* was computed from, so that row alignment and grouping can be checked.   *)
(***************************************************************************)
EXTENDS Integers, Sequences, FiniteSets, TLC

(***************************************************************************)
(* Bounds of the model.                                                    *)
(***************************************************************************)
MaxRows == 4
MaxWidth == 4
MaxSelected == 2
MaxPeriodRows == 3
MaxWidgetRows == 2
MaxWidgetWidth == 4
MaxCatalogRows == 2

(***************************************************************************)
(* Program constants.                                                      *)
(***************************************************************************)
DiscardOriginal == 0
KeepFirst == 1
KeepMiddle == 2
KeepLast == 3
KeepComplete == 1
KeepAll == 2
SlidingWindow == 0
SequentialBlocks == 1
TimePeriods == 2
MinWidth == 2

(***************************************************************************)
(* Generic helpers on sequences.                                           *)
(***************************************************************************)
Range(s) == {s[i] : i \in DOMAIN s}

\* the k-th smallest element of a finite set of integers, k in 1..|S|
Nth(S, k) == CHOOSE x \in S : Cardinality({y \in S : y <= x}) = k

\* the elements of a finite set of integers in ascending order
SortedSeq(S) == [k \in 1..Cardinality(S) |-> Nth(S, k)]

\* the concatenation of a sequence of sequences
Concat(ss) ==
    LET before(i) == UNION {{<<a, b>> : b \in DOMAIN ss[a]} : a \in 1..(i - 1)}
        total == Cardinality(before(Len(ss) + 1))
        place(k) == CHOOSE i \in DOMAIN ss :
                        /\ Cardinality(before(i)) < k
                        /\ k <= Cardinality(before(i)) + Len(ss[i])
    IN  [k \in 1..total |-> ss[place(k)][k - Cardinality(before(place(k)))]]

\* the subsequence of s whose elements are in the set S, order kept
SelectSeqOf(s, S) ==
    LET pos == {i \in DOMAIN s : s[i] \in S}
    IN  [k \in 1..Cardinality(pos) |-> s[Nth(pos, k)]]

IndexOf(s, x) == CHOOSE i \in DOMAIN s : s[i] = x

Max(a, b) == IF a >= b THEN a ELSE b
Min(a, b) == IF a <= b THEN a ELSE b

(***************************************************************************)
(* The aggregation catalog, in registration order.                         *)
(***************************************************************************)
AggOrder ==
    << "mean", "sum", "product", "min", "max", "span", "median", "mode",
       "std", "var", "lin. MA", "exp. MA", "harmonic", "geometric",
       "non-zero", "defined", "cumsum", "cumprod" >>

AggKinds == Range(AggOrder)

\* a catalog in which the two moving averages have a block_transform
NoBlockTransformMutant == {"cumsum", "cumprod"}

\* the kinds registered with block_transform = None
NoBlockTransform == {"lin. MA", "exp. MA", "cumsum", "cumprod"}

SupportsDiscrete == {"mode", "non-zero", "defined"}
CountAggregate == {"non-zero", "defined"}
Cumulative == {"cumsum", "cumprod"}

LongDesc(k) ==
    CASE k = "mean" -> "Mean value"
      [] k = "sum" -> "Sum"
      [] k = "product" -> "Product"
      [] k = "min" -> "Minimum"
      [] k = "max" -> "Maximum"
      [] k = "span" -> "Span"
      [] k = "median" -> "Median"
      [] k = "mode" -> "Mode"
      [] k = "std" -> "Standard deviation"
      [] k = "var" -> "Variance"
      [] k = "lin. MA" -> "Linear MA"
      [] k = "exp. MA" -> "Exponential MA"
      [] k = "harmonic" -> "Harmonic mean"
      [] k = "geometric" -> "Geometric mean"
      [] k = "non-zero" -> "Non-zero count"
      [] k = "defined" -> "Defined count"
      [] k = "cumsum" -> "Cumulative sum"
      [] k = "cumprod" -> "Cumulative product"

AggOptions ==
    [k \in AggKinds |->
        [short_desc |-> k,
         block_transform |-> k \notin NoBlockTransform,
         long_desc |-> LongDesc(k),
         supports_discrete |-> k \in SupportsDiscrete,
         count_aggregate |-> k \in CountAggregate,
         cumulative |-> k \in Cumulative]]

(***************************************************************************)
(* Cells and columns.  A cell of an original column names its row; a cell  *)
(* of an aggregate names the kind and the rows lo..hi it reduces.          *)
(***************************************************************************)
Cell(t, var, kind, lo, hi) ==
    [t |-> t, var |-> var, kind |-> kind, lo |-> lo, hi |-> hi]

NaN == Cell("nan", "", "", 0, 0)

\* the column of variable `var` in a table of n rows (rows are 0-based)
Column(var, n) == [i \in 1..n |-> Cell("orig", var, "", i - 1, i - 1)]

\* python slice(start, stop, step) applied to a sequence of length n, step > 0;
\* hasStop = FALSE stands for stop = None.  Gives the selected 0-based indices.
SliceIndices(start, hasStop, stop, step, n) ==
    LET lo == IF start < 0 THEN Max(start + n, 0) ELSE Min(start, n)
        hi == IF ~hasStop THEN n
              ELSE IF stop < 0 THEN Max(stop + n, 0) ELSE Min(stop, n)
        cnt == IF hi > lo THEN (hi - lo + step - 1) \div step ELSE 0
    IN  [j \in 1..cnt |-> lo + (j - 1) * step]

\* column[rows] for a sequence of 0-based indices
Take(column, idx) == [j \in 1..Len(idx) |-> column[idx[j] + 1]]

AllRows(n) == [j \in 1..n |-> j - 1]

\* agg.transform(column, width, step): one value per window of `width` rows
\* advancing by `step`; floor((N - width) / step) + 1 values, none if N < width
WindowedTransform(kind, var, column, width, step) ==
    LET n == Len(column)
        cnt == IF n < width THEN 0 ELSE (n - width) \div step + 1
    IN  [j \in 1..cnt |->
            Cell("win", var, kind,
                 column[(j - 1) * step + 1].lo,
                 column[(j - 1) * step + width].hi)]

\* agg.cumulative(column): np.nancumsum / np.nancumprod, one value per row
CumulativeTransform(kind, var, column) ==
    [j \in 1..Len(column) |-> Cell("cum", var, kind, column[1].lo, column[j].hi)]


(***************************************************************************)
(* The widget's state.                                                     *)
(*   data            the input table (a Timeseries) or None                *)
(*   var_model       the variables listed in the view, in domain order     *)
(*   transformations TransformationsModel._transformations, a set per row  *)
(*   selection       rows of var_model selected in the view                *)
(*   var_hints       persisted selection, keyed by (name, is_continuous)   *)
(*   method .. use_names   the settings                                    *)
(*   naming_visible  whether the use_names check box is visible            *)
(*   warnings, inapplicable_shown   the Warning messages that are shown    *)
(*   status          "idle" before any commit, "sent" when the last commit *)
(*                   sent its output, "raised" when it raised instead      *)
(*   output          the value that the last commit sent on                *)
(*                   Outputs.time_series (None while status is not "sent") *)
(***************************************************************************)
VARIABLES data, var_model, transformations, selection, var_hints,
          method, window_width, keep_instances, block_width, ref_instance,
          period_width, use_names, naming_visible,
          warnings, inapplicable_shown, output, status

vars == << data, var_model, transformations, selection, var_hints,
           method, window_width, keep_instances, block_width, ref_instance,
           period_width, use_names, naming_visible,
           warnings, inapplicable_shown, output, status >>


(***************************************************************************)
(* Tables.  A variable is [name, is_continuous]; a table has n rows, its   *)
(* attributes and class variables, the name of its time variable ("" for   *)
(* None) and the time column (epoch seconds, one per row).                 *)
(***************************************************************************)
Var(name, cont) == [name |-> name, is_continuous |-> cont]

NoData ==
    [isNone |-> TRUE, n |-> 0, attributes |-> <<>>, class_vars |-> <<>>,
     time_variable |-> "", time |-> <<>>]

Table(n, attributes, class_vars, time_variable, time) ==
    [isNone |-> FALSE, n |-> n, attributes |-> attributes,
     class_vars |-> class_vars, time_variable |-> time_variable, time |-> time]

\* the value of Outputs.time_series: None, or a table given by its attribute
\* descriptors, the columns of X, and the original rows that Y, metas, W and
\* ids are taken from (keeps_rows = FALSE when the output has none of these)
NoneTs ==
    [isNone |-> TRUE, attributes |-> <<>>, columns |-> <<>>,
     keeps_rows |-> FALSE, rows |-> <<>>]

Ts(attributes, columns, keeps_rows, rows) ==
    [isNone |-> FALSE, attributes |-> attributes, columns |-> columns,
     keeps_rows |-> keeps_rows, rows |-> rows]

\* len(ts): the number of rows of X
NRows(ts) == IF ts.columns = <<>> THEN 0 ELSE Len(ts.columns[1])

\* `not self.data`: None, or a table of zero rows
DataIsFalsy(w) == w.data.isNone \/ w.data.n = 0

(***************************************************************************)
(* TransformationsModel                                                    *)
(***************************************************************************)
\* set_variables, called with the variables set_data keeps: the discrete ones
\* and the continuous ones that are not the time variable
ModelVariables(d) ==
    SelectSeqOf(d.attributes \o d.class_vars,
                {v \in Range(d.attributes \o d.class_vars) :
                    ~v.is_continuous \/ v.name # d.time_variable})

\* the requested kinds against the registration order (last registered first)
get_transformations_mutant(w, index) ==
    [k \in 1..Len(SelectSeqOf(AggOrder, w.transformations[index])) |->
        SelectSeqOf(AggOrder, w.transformations[index])
            [Len(SelectSeqOf(AggOrder, w.transformations[index])) + 1 - k]]

get_transformations(w, index) == SelectSeqOf(AggOrder, w.transformations[index])

InModel(w, attr) == \E i \in DOMAIN w.var_model : w.var_model[i] = attr

(***************************************************************************)
(* Names of output columns.  A name is [var, kind, suffix]: the text       *)
(* "<var> (<kind>)", or "<var>" when kind is empty, followed by " (k)"     *)
(* when suffix = k > 0.                                                    *)
(***************************************************************************)
Name(var, kind) == [var |-> var, kind |-> kind, suffix |-> 0]

DomainNames(d) == {Name(v.name, "") : v \in Range(d.attributes \o d.class_vars)}

\* Orange.data.util.get_unique_names: when a proposed name is taken, all the
\* proposed names get the same numeric suffix
GetUniqueNames(existing, names) ==
    IF Range(names) \cap existing = {} THEN names
    ELSE [i \in DOMAIN names |-> [names[i] EXCEPT !.suffix = 1]]

\* Orange.data.util.get_unique_names_duplicates: a name that occurs more than
\* once gets the index of its occurrence as suffix
GetUniqueNamesDuplicates(names) ==
    [i \in DOMAIN names |->
        IF Cardinality({j \in DOMAIN names : names[j] = names[i]}) > 1
        THEN [names[i] EXCEPT
                 !.suffix = Cardinality({j \in 1..i : names[j] = names[i]})]
        ELSE names[i]]

\* f"{var.name} ({trans})" for the kinds `kinds` of one variable
NamesOf(var, kinds) == [j \in DOMAIN kinds |-> Name(var.name, kinds[j])]

\* the kinds among `kinds` that have a block_transform, order kept
Applicable(kinds) ==
    SelectSeqOf(kinds, {k \in AggKinds : AggOptions[k].block_transform})

\* an output column under construction: its source variable, the kind ("" for
\* an original column) and its values
Entry(attr, kind, col) == [attr |-> attr, kind |-> kind, col |-> col]

OutAttr(name, is_continuous, decimals0) ==
    [name |-> name, is_continuous |-> is_continuous, decimals0 |-> decimals0]

_var_for_agg(attr, kind, name) ==
    IF AggOptions[kind].count_aggregate
    THEN OutAttr(name, TRUE, TRUE)
    ELSE OutAttr(name, attr.is_continuous, FALSE)

\* _var_for_agg consumes `names` in the order in which aggregates are added:
\* original columns keep their variable, the k-th aggregate takes the k-th
\* name of `names`
OutAttributes(entries, names) ==
    [i \in DOMAIN entries |->
        IF entries[i].kind = ""
        THEN OutAttr(Name(entries[i].attr.name, ""),
                     entries[i].attr.is_continuous, FALSE)
        ELSE _var_for_agg(entries[i].attr, entries[i].kind,
                 names[Cardinality({j \in 1..i : entries[j].kind # ""})])]

Columns(entries) == [i \in DOMAIN entries |-> entries[i].col]

\* np.vstack(columns) raises unless all columns have the same length
VstackRaises(columns) ==
    \E i, j \in DOMAIN columns : Len(columns[i]) # Len(columns[j])

\* the outcome of an engine: the table it returns (or None), whether it
\* raised instead, and the warnings it showed
Outcome(raised, ts, warns, inapplicable) ==
    [raised |-> raised, ts |-> ts, warnings |-> warns,
     inapplicable |-> inapplicable]

\* _set_warnings without its test for `not columns`
SetWarningsMutant(columns, inapplicable) ==
    IF inapplicable # {} THEN {"inapplicable_aggregations"} ELSE {}

\* _set_warnings(columns, inapplicable): the warnings it shows
SetWarnings(columns, inapplicable) ==
    (IF inapplicable # {} THEN {"inapplicable_aggregations"} ELSE {})
    \cup (IF columns = <<>> THEN {"no_aggregations"} ELSE {})

\* the text of inapplicable_aggregations: the long descriptions, catalog order
InapplicableText(inapplicable) ==
    SelectSeqOf([i \in DOMAIN AggOrder |-> AggOptions[AggOrder[i]].long_desc],
                inapplicable)

\* the end of the sliding window and of the sequential blocks engine: the
\* warnings, the test for no columns, np.vstack and Timeseries.from_numpy,
\* which raises when Y, metas and W have another number of rows than X.
\* `shown` are the warnings shown before.
FromColumns(discard, entries, names, rows, shown, inapplicable) ==
    IF Columns(entries) = <<>>
    THEN Outcome(FALSE, NoneTs,
                 shown \cup SetWarnings(Columns(entries), inapplicable),
                 InapplicableText(inapplicable))
    ELSE IF \/ VstackRaises(Columns(entries))
            \/ ~discard /\ Len(rows) # Len(entries[1].col)
    THEN Outcome(TRUE, NoneTs,
                 shown \cup SetWarnings(Columns(entries), inapplicable),
                 InapplicableText(inapplicable))
    ELSE Outcome(FALSE,
                 Ts(OutAttributes(entries, names), Columns(entries), ~discard,
                    IF discard THEN <<>> ELSE rows),
                 shown \cup SetWarnings(Columns(entries), inapplicable),
                 InapplicableText(inapplicable))

(***************************************************************************)
(* _compute_sliding_window                                                 *)
(***************************************************************************)
SlidingNames(w) ==
    GetUniqueNames(
        IF w.keep_instances = DiscardOriginal THEN {} ELSE DomainNames(w.data),
        Concat([i \in DOMAIN w.var_model |->
                   NamesOf(w.var_model[i], get_transformations(w, i))]))

\* `rows` with KeepComplete sliced from window_width, not window_width - 1
SlidingRowsMutant(w) ==
    IF w.keep_instances = DiscardOriginal THEN <<>>
    ELSE IF w.keep_instances = KeepComplete
    THEN SliceIndices(w.window_width, FALSE, 0, 1, w.data.n)
    ELSE AllRows(w.data.n)

\* `rows`: the original rows that are kept (unused when originals are dropped)
SlidingRows(w) ==
    IF w.keep_instances = DiscardOriginal THEN <<>>
    ELSE IF w.keep_instances = KeepComplete
    THEN SliceIndices(w.window_width - 1, FALSE, 0, 1, w.data.n)
    ELSE AllRows(w.data.n)

\* leading = np.full(window_width - 1, np.nan)
Leading(w) == [i \in 1..(w.window_width - 1) |-> NaN]

\* the aggregate column when `agg.cumulative` alone selects the cumulative form
SlidingAggColumnMutant(w, attr, kind) ==
    IF AggOptions[kind].cumulative
    THEN CumulativeTransform(kind, attr.name, Column(attr.name, w.data.n))
    ELSE (IF w.keep_instances = KeepAll THEN Leading(w) ELSE <<>>)
         \o WindowedTransform(kind, attr.name, Column(attr.name, w.data.n),
                              w.window_width, 1)

\* the aggregate column of one (attr, transformation) pair
SlidingAggColumn(w, attr, kind) ==
    IF AggOptions[kind].cumulative /\ w.keep_instances = KeepAll
    THEN CumulativeTransform(kind, attr.name, Column(attr.name, w.data.n))
    ELSE (IF w.keep_instances = KeepAll THEN Leading(w) ELSE <<>>)
         \o WindowedTransform(kind, attr.name, Column(attr.name, w.data.n),
                              w.window_width, 1)

SlidingAggEntries(w, attr, kinds) ==
    [j \in DOMAIN kinds |-> Entry(attr, kinds[j], SlidingAggColumn(w, attr, kinds[j]))]

\* add_aggregates(attr, column): the columns it appends
SlidingAddAggregates(w, attr) ==
    IF ~InModel(w, attr) THEN <<>>
    ELSE SlidingAggEntries(w, attr,
                           get_transformations(w, IndexOf(w.var_model, attr)))

\* the columns that the loops over domain.attributes and domain.class_vars add
SlidingEntries(w) ==
    Concat([i \in DOMAIN (w.data.attributes \o w.data.class_vars) |->
        (IF i <= Len(w.data.attributes) /\ w.keep_instances # DiscardOriginal
         THEN <<Entry(w.data.attributes[i], "",
                      Take(Column(w.data.attributes[i].name, w.data.n),
                           SlidingRows(w)))>>
         ELSE <<>>)
        \o SlidingAddAggregates(w, (w.data.attributes \o w.data.class_vars)[i])])

SlidingWindowTooLarge(w) ==
    IF w.window_width > w.data.n THEN {"window_to_large"} ELSE {}

compute_sliding_window(w) ==
    FromColumns(w.keep_instances = DiscardOriginal, SlidingEntries(w),
                SlidingNames(w), SlidingRows(w), SlidingWindowTooLarge(w), {})

(***************************************************************************)
(* _compute_sequential_blocks                                              *)
(***************************************************************************)
\* `rows`: the representative row of every block
BlockRows(w) ==
    CASE w.ref_instance = DiscardOriginal ->
            SliceIndices(0, TRUE, 0, 1, w.data.n)
      [] w.ref_instance = KeepFirst ->
            SliceIndices(0, TRUE, -(w.block_width - 1), w.block_width, w.data.n)
      [] w.ref_instance = KeepMiddle ->
            SliceIndices(w.block_width \div 2, TRUE,
                         -(w.block_width - 1 - w.block_width \div 2),
                         w.block_width, w.data.n)
      [] w.ref_instance = KeepLast ->
            SliceIndices(w.block_width - 1, FALSE, 0, w.block_width, w.data.n)

BlockAggEntries(w, attr, kinds) ==
    [j \in DOMAIN kinds |->
        Entry(attr, kinds[j],
              WindowedTransform(kinds[j], attr.name, Column(attr.name, w.data.n),
                                w.block_width, w.block_width))]

\* add_aggregates(attr, column): the columns it appends
BlockAddAggregates(w, attr) ==
    IF ~InModel(w, attr) THEN <<>>
    ELSE BlockAggEntries(w, attr,
             Applicable(get_transformations(w, IndexOf(w.var_model, attr))))

\* the long descriptions that add_aggregates puts into `inapplicable`
BlockInapplicable(w) ==
    {AggOptions[k].long_desc :
        k \in {t \in UNION {w.transformations[i] :
                              i \in {j \in DOMAIN w.var_model :
                                  w.var_model[j] \in Range(w.data.attributes
                                                           \o w.data.class_vars)}} :
                 t \in AggKinds /\ ~AggOptions[t].block_transform}}

BlockEntries(w) ==
    Concat([i \in DOMAIN (w.data.attributes \o w.data.class_vars) |->
        (IF i <= Len(w.data.attributes) /\ w.ref_instance # DiscardOriginal
         THEN <<Entry(w.data.attributes[i], "",
                      Take(Column(w.data.attributes[i].name, w.data.n),
                           BlockRows(w)))>>
         ELSE <<>>)
        \o BlockAddAggregates(w, (w.data.attributes \o w.data.class_vars)[i])])

\* _names_for_blocked_aggregation
names_for_blocked_aggregation(w) ==
    IF w.method = SequentialBlocks /\ w.ref_instance # DiscardOriginal
    THEN GetUniqueNames(DomainNames(w.data),
             Concat([i \in DOMAIN w.var_model |->
                 NamesOf(w.var_model[i], Applicable(get_transformations(w, i)))]))
    ELSE GetUniqueNamesDuplicates(
             (IF w.method = TimePeriods
              THEN <<Name(w.period_width, ""), Name("Instance count", "")>>
              ELSE <<>>)
             \o Concat([i \in DOMAIN w.var_model |->
                 NamesOf(w.var_model[i], Applicable(get_transformations(w, i)))]))

compute_sequential_blocks(w) ==
    IF w.block_width > w.data.n
    THEN Outcome(FALSE, NoneTs, {"block_to_large"}, <<>>)
    ELSE FromColumns(w.ref_instance = DiscardOriginal, BlockEntries(w),
                     names_for_blocked_aggregation(w), BlockRows(w), {},
                     BlockInapplicable(w))

(***************************************************************************)
(* Calendar arithmetic (UTC, proleptic Gregorian), as the datetime and     *)
(* calendar modules compute it.  A datetime is <<year, month, day, hour,   *)
(* minute, second>>.                                                       *)
(***************************************************************************)
\* days since 1970-01-01 of a civil date
DaysFromCivil(year, month, day) ==
    LET y == IF month <= 2 THEN year - 1 ELSE year
        era == y \div 400
        yoe == y - era * 400
        mp == IF month > 2 THEN month - 3 ELSE month + 9
        doy == (153 * mp + 2) \div 5 + day - 1
        doe == yoe * 365 + yoe \div 4 - yoe \div 100 + doy
    IN  era * 146097 + doe - 719468

\* the civil date <<year, month, day>> of a day count since 1970-01-01
CivilFromDays(days) ==
    LET z == days + 719468
        era == z \div 146097
        doe == z - era * 146097
        yoe == (doe - doe \div 1460 + doe \div 36524 - doe \div 146096) \div 365
        doy == doe - (365 * yoe + yoe \div 4 - yoe \div 100)
        mp == (5 * doy + 2) \div 153
        d == doy - (153 * mp + 2) \div 5 + 1
        m == IF mp < 10 THEN mp + 3 ELSE mp - 9
        y == yoe + era * 400
    IN  << IF m <= 2 THEN y + 1 ELSE y, m, d >>

\* Orange.util.utc_from_timestamp
utc_from_timestamp(x) ==
    LET days == x \div 86400
        secs == x % 86400
        ymd == CivilFromDays(days)
    IN  << ymd[1], ymd[2], ymd[3],
           secs \div 3600, (secs % 3600) \div 60, secs % 60 >>

\* calendar.timegm(d.timetuple())
timegm(d) ==
    DaysFromCivil(d[1], d[2], d[3]) * 86400 + d[4] * 3600 + d[5] * 60 + d[6]

\* d.weekday(): Monday is 0; 1970-01-01 was a Thursday
weekday(d) == (DaysFromCivil(d[1], d[2], d[3]) + 3) % 7

\* d.toordinal() - date(d.year, 1, 1).toordinal() + 1
day_of_year(d) == DaysFromCivil(d[1], d[2], d[3]) - DaysFromCivil(d[1], 1, 1) + 1

\* truncated_date(d, level): the fields after position `level` (0 = year ..
\* 5 = second) are reset to the start of the period
truncated_date(d, level) ==
    [i \in 1..6 |-> IF i <= level + 1 THEN d[i]
                    ELSE IF i <= 3 THEN 1 ELSE 0]

(***************************************************************************)
(* The period catalog.                                                     *)
(***************************************************************************)
PeriodDesc(struct_index, periodic, attr_name, value_as_period, has_names, value_offset) ==
    [struct_index |-> struct_index, periodic |-> periodic,
     attr_name |-> attr_name, value_as_period |-> value_as_period,
     names |-> has_names, value_offset |-> value_offset]

PeriodNames ==
    << "Years", "Months", "Days", "Hours", "Minutes", "Seconds",
       "Month of year", "Day of year", "Day of month", "Day of week",
       "Hour of day" >>

PeriodOptions ==
    [p \in Range(PeriodNames) |->
        CASE p = "Years" -> PeriodDesc(0, FALSE, "Time", TRUE, FALSE, 0)
          [] p = "Months" -> PeriodDesc(1, FALSE, "Time", TRUE, FALSE, 0)
          [] p = "Days" -> PeriodDesc(2, FALSE, "Time", TRUE, FALSE, 0)
          [] p = "Hours" -> PeriodDesc(3, FALSE, "Time", TRUE, FALSE, 0)
          [] p = "Minutes" -> PeriodDesc(4, FALSE, "Time", TRUE, FALSE, 0)
          [] p = "Seconds" -> PeriodDesc(5, FALSE, "Time", TRUE, FALSE, 0)
          [] p = "Month of year" -> PeriodDesc(1, TRUE, "Month", TRUE, TRUE, -1)
          [] p = "Day of year" -> PeriodDesc(2, TRUE, "Day", FALSE, FALSE, 0)
          [] p = "Day of month" -> PeriodDesc(2, TRUE, "Day", TRUE, FALSE, 0)
          [] p = "Day of week" -> PeriodDesc(2, TRUE, "Day", FALSE, TRUE, 0)
          [] p = "Hour of day" -> PeriodDesc(3, TRUE, "Hour", TRUE, FALSE, 0)]

(***************************************************************************)
(* _compute_period_aggregation                                             *)
(***************************************************************************)
\* the grouping key of one timestamp, before np.unique
PeriodKey(w, x) ==
    IF PeriodOptions[w.period_width].periodic
    THEN (IF PeriodOptions[w.period_width].value_as_period
          THEN utc_from_timestamp(x)[PeriodOptions[w.period_width].struct_index + 1]
          ELSE IF w.period_width = "Day of week"
          THEN weekday(utc_from_timestamp(x))
          ELSE day_of_year(utc_from_timestamp(x)))
         + PeriodOptions[w.period_width].value_offset
    ELSE timegm(truncated_date(utc_from_timestamp(x),
                               PeriodOptions[w.period_width].struct_index))

PeriodTimes(w) == [i \in DOMAIN w.data.time |-> PeriodKey(w, w.data.time[i])]

\* the distinct values in the order of their first occurrence
UniqueMutant(times) ==
    LET pos == {i \in DOMAIN times : \A j \in 1..(i - 1) : times[j] # times[i]}
    IN  [k \in 1..Cardinality(pos) |-> times[Nth(pos, k)]]

\* np.unique(times): the distinct values in ascending order
Unique(times) == SortedSeq(Range(times))

\* return_inverse: for every row the 0-based index of its key in `periods`
PeriodIndices(times, periods) ==
    [i \in DOMAIN times |-> IndexOf(periods, times[i]) - 1]

\* return_counts
PeriodCounts(times, periods) ==
    [g \in DOMAIN periods |->
        Cardinality({i \in DOMAIN times : times[i] = periods[g]})]

\* `periods` stored as np.unique returns them, without `periods += 1`
PeriodsStoredMutant(w, periods) == periods

\* `periods` as stored in the key column
PeriodsStored(w, periods) ==
    IF w.period_width = "Month of year" /\ ~w.use_names
    THEN [g \in DOMAIN periods |-> periods[g] + 1]
    ELSE periods

\* the descriptor of the key column
PeriodKeyAttr(w, name) ==
    IF /\ PeriodOptions[w.period_width].periodic
       /\ PeriodOptions[w.period_width].names
       /\ w.use_names
    THEN OutAttr(name, FALSE, FALSE)
    ELSE OutAttr(name, TRUE, FALSE)

\* agg.block_transform(column[period_indices == i]) for i in range(len(periods))
PeriodAggColumn(var, kind, times, periods) ==
    [g \in DOMAIN periods |->
        Cell("grp", var.name, kind, g - 1,
             Cardinality({i \in DOMAIN times :
                            PeriodIndices(times, periods)[i] = g - 1}))]

PeriodAggEntriesOf(var, kinds, times, periods) ==
    [j \in DOMAIN kinds |->
        Entry(var, kinds[j], PeriodAggColumn(var, kinds[j], times, periods))]

\* the aggregate columns, one per variable of the model and applicable kind
PeriodAggEntries(w, times, periods) ==
    Concat([i \in DOMAIN w.var_model |->
        PeriodAggEntriesOf(w.var_model[i], Applicable(get_transformations(w, i)),
                           times, periods)])

PeriodInapplicable(w) ==
    {AggOptions[k].long_desc :
        k \in {t \in UNION {w.transformations[i] : i \in DOMAIN w.var_model} :
                 t \in AggKinds /\ ~AggOptions[t].block_transform}}

KeyColumn(stored) ==
    [g \in DOMAIN stored |-> Cell("key", "", "", stored[g], stored[g])]

CountColumn(counts) ==
    [g \in DOMAIN counts |-> Cell("count", "", "", counts[g], counts[g])]

\* the end of the engine with the test for no columns applied to the
\* aggregate columns alone, as the other two engines have it with Discard
PeriodFromColumnsMutant(key_attr, count_attr, key_column, count_column, entries, names, inapplicable) ==
    IF Columns(entries) = <<>>
    THEN Outcome(FALSE, NoneTs,
                 SetWarnings(Columns(entries), inapplicable),
                 InapplicableText(inapplicable))
    ELSE Outcome(FALSE,
                 Ts(<<key_attr, count_attr>> \o OutAttributes(entries, names),
                    <<key_column, count_column>> \o Columns(entries),
                    FALSE, <<>>),
                 SetWarnings(<<key_column, count_column>> \o Columns(entries),
                             inapplicable),
                 InapplicableText(inapplicable))

\* the end of the engine: the warnings, the test for no columns and the table
PeriodFromColumns(key_attr, count_attr, key_column, count_column, entries, names, inapplicable) ==
    IF <<key_column, count_column>> \o Columns(entries) = <<>>
    THEN Outcome(FALSE, NoneTs,
                 SetWarnings(<<key_column, count_column>> \o Columns(entries),
                             inapplicable),
                 InapplicableText(inapplicable))
    ELSE Outcome(FALSE,
                 Ts(<<key_attr, count_attr>> \o OutAttributes(entries, names),
                    <<key_column, count_column>> \o Columns(entries),
                    FALSE, <<>>),
                 SetWarnings(<<key_column, count_column>> \o Columns(entries),
                             inapplicable),
                 InapplicableText(inapplicable))

PeriodTable(w, names, times, periods) ==
    PeriodFromColumns(PeriodKeyAttr(w, names[1]), OutAttr(names[2], TRUE, FALSE),
                      KeyColumn(PeriodsStored(w, periods)),
                      CountColumn(PeriodCounts(times, periods)),
                      PeriodAggEntries(w, times, periods),
                      SubSeq(names, 3, Len(names)),
                      PeriodInapplicable(w))

compute_period_aggregation(w) ==
    \* data.get_column_view(None) raises
    IF w.data.time_variable = "" THEN Outcome(TRUE, NoneTs, {}, <<>>)
    ELSE PeriodTable(w, names_for_blocked_aggregation(w), PeriodTimes(w),
                     Unique(PeriodTimes(w)))

(***************************************************************************)
(* commit                                                                  *)
(***************************************************************************)
\* the widget's attributes that the engines read, as a record
Widget ==
    [data |-> data, var_model |-> var_model, transformations |-> transformations,
     method |-> method, window_width |-> window_width,
     keep_instances |-> keep_instances, block_width |-> block_width,
     ref_instance |-> ref_instance, period_width |-> period_width,
     use_names |-> use_names]

\* what commit computes for the widget w
CommitOutcome(w) ==
    IF DataIsFalsy(w) THEN Outcome(FALSE, NoneTs, {}, <<>>)
    ELSE CASE w.method = SlidingWindow -> compute_sliding_window(w)
           [] w.method = SequentialBlocks -> compute_sequential_blocks(w)
           [] w.method = TimePeriods -> compute_period_aggregation(w)

\* commit, run at the end of a handler on the widget w that the handler
\* leaves: the warnings are cleared and set anew; the output is sent unless
\* the engine raised.  (autocommit is on, its default: commit.deferred()
\* commits.)
Send(o) ==
    /\ warnings' = o.warnings
    /\ inapplicable_shown' = o.inapplicable
    /\ output' = IF o.raised THEN NoneTs ELSE o.ts
    /\ status' = IF o.raised THEN "raised" ELSE "sent"

commit(w) == Send(CommitOutcome(w))

(***************************************************************************)
(* Handlers                                                                *)
(***************************************************************************)
_varkey(var) == << var.name, var.is_continuous >>

\* rb_period and the period combo box are disabled by set_data for a table
\* without a time variable
PeriodDisabled == ~data.isNone /\ data.time_variable = ""

\* _set_naming_visibility: the visibility it gives the use_names check box
NamingVisibility(m, p) == m = TimePeriods /\ PeriodOptions[p].names

\* the transformations set_data restores for a variable from var_hints
HintFor(var) ==
    IF _varkey(var) \in DOMAIN var_hints THEN var_hints[_varkey(var)] ELSE {}

set_data(d) ==
    LET vm == IF d.isNone THEN <<>> ELSE ModelVariables(d)
        tr == [i \in DOMAIN vm |-> HintFor(vm[i])]
    IN  /\ data' = d
        /\ var_model' = vm
        /\ transformations' = tr
        /\ selection' = {}
        /\ naming_visible' = NamingVisibility(method, period_width)
        /\ UNCHANGED << var_hints, method, window_width, keep_instances,
                        block_width, ref_instance, period_width, use_names >>
        /\ commit([Widget EXCEPT !.data = d, !.var_model = vm,
                                 !.transformations = tr])

\* a click on one of the three radio buttons
MethodChanged(m) ==
    /\ m = TimePeriods => ~PeriodDisabled
    /\ method' = m
    /\ UNCHANGED << data, var_model, transformations, selection, var_hints,
                    window_width, keep_instances, block_width, ref_instance,
                    period_width, use_names, naming_visible >>
    /\ commit([Widget EXCEPT !.method = m])

_window_width_changed(width) ==
    /\ window_width' = width
    /\ method' = SlidingWindow
    /\ UNCHANGED << data, var_model, transformations, selection, var_hints,
                    keep_instances, block_width, ref_instance,
                    period_width, use_names, naming_visible >>
    /\ commit([Widget EXCEPT !.window_width = width, !.method = SlidingWindow])

_keep_instances_changed(k) ==
    /\ keep_instances' = k
    /\ UNCHANGED << data, var_model, transformations, selection, var_hints,
                    method, window_width, block_width, ref_instance,
                    period_width, use_names, naming_visible >>
    /\ commit([Widget EXCEPT !.keep_instances = k])

\* the callback of the block width spin box and of the ref_instance combo box
_use_sequential_blocks(width, r) ==
    /\ block_width' = width
    /\ ref_instance' = r
    /\ method' = SequentialBlocks
    /\ UNCHANGED << data, var_model, transformations, selection, var_hints,
                    window_width, keep_instances,
                    period_width, use_names, naming_visible >>
    /\ commit([Widget EXCEPT !.block_width = width, !.ref_instance = r,
                             !.method = SequentialBlocks])

_time_period_changed(p) ==
    /\ ~PeriodDisabled
    /\ period_width' = p
    /\ method' = TimePeriods
    /\ naming_visible' = NamingVisibility(TimePeriods, p)
    /\ UNCHANGED << data, var_model, transformations, selection, var_hints,
                    window_width, keep_instances, block_width, ref_instance,
                    use_names >>
    /\ commit([Widget EXCEPT !.period_width = p, !.method = TimePeriods])

\* a click on the use_names check box, which can be clicked when visible
UseNamesChanged ==
    /\ naming_visible
    /\ use_names' = ~use_names
    /\ UNCHANGED << data, var_model, transformations, selection, var_hints,
                    method, window_width, keep_instances, block_width,
                    ref_instance, period_width, naming_visible >>
    /\ commit([Widget EXCEPT !.use_names = ~use_names])

\* _selection_changed: the check box of `trans` is left enabled
CheckboxEnabled(trans) ==
    /\ selection # {}
    /\ (\E i \in selection : ~var_model[i].is_continuous)
           => AggOptions[trans].supports_discrete

\* TransformationsModel.set_transformation
set_transformation(indexes, transformation, state) ==
    [row \in DOMAIN transformations |->
        IF row \in indexes
        THEN IF state THEN transformations[row] \cup {transformation}
             ELSE transformations[row] \ {transformation}
        ELSE transformations[row]]

\* the var_hints when the entry of a variable left without kinds is kept
HintsAfterMutant(newtrans) ==
    LET setkeys == {_varkey(var_model[i]) :
                        i \in {j \in selection : newtrans[j] \cap AggKinds # {}}}
        rowof(key) == CHOOSE i \in selection : _varkey(var_model[i]) = key
    IN  [key \in (DOMAIN var_hints) \cup setkeys |->
            IF key \in setkeys THEN newtrans[rowof(key)] \cap AggKinds
            ELSE var_hints[key]]

\* the var_hints that _checkbox_changed leaves, given the new transformations
HintsAfter(newtrans) ==
    LET selkeys == {_varkey(var_model[i]) : i \in selection}
        setkeys == {_varkey(var_model[i]) :
                        i \in {j \in selection : newtrans[j] \cap AggKinds # {}}}
        rowof(key) == CHOOSE i \in selection : _varkey(var_model[i]) = key
    IN  [key \in (DOMAIN var_hints \ selkeys) \cup setkeys |->
            IF key \in setkeys THEN newtrans[rowof(key)] \cap AggKinds
            ELSE var_hints[key]]

_checkbox_changed(transformation, state) ==
    LET tr == set_transformation(selection, transformation, state)
    IN  /\ CheckboxEnabled(transformation)
        /\ \A i \in DOMAIN tr : Cardinality(tr[i]) <= MaxSelected
        /\ transformations' = tr
        /\ var_hints' = HintsAfter(tr)
        /\ UNCHANGED << data, var_model, selection,
                        method, window_width, keep_instances, block_width,
                        ref_instance, period_width, use_names, naming_visible >>
        /\ commit([Widget EXCEPT !.transformations = tr])

\* the user changes the selection in the view; _selection_changed only
\* updates the check boxes
_selection_changed(sel) ==
    /\ sel # selection
    /\ selection' = sel
    /\ UNCHANGED << data, var_model, transformations, var_hints,
                    method, window_width, keep_instances, block_width,
                    ref_instance, period_width, use_names, naming_visible,
                    warnings, inapplicable_shown, output, status >>

(***************************************************************************)
(* Inputs                                                                  *)
(***************************************************************************)
Methods == {SlidingWindow, SequentialBlocks, TimePeriods}
KeepOptions == {DiscardOriginal, KeepComplete, KeepAll}
RefOptions == {DiscardOriginal, KeepFirst, KeepMiddle, KeepLast}

VarT == Var("T", TRUE)
VarA == Var("a", TRUE)
VarD == Var("d", FALSE)
VarY == Var("y", TRUE)

\* a daily time column starting 1970-12-15 12:00:00
DailyTime(n) == [i \in 1..n |-> 30110400 + (i - 1) * 86400]

\* time series with the attributes T (time) and a
TimedTable(n) == Table(n, <<VarT, VarA>>, <<>>, "T", DailyTime(n))
\* time series with the attributes T (time) and a and the class y
TimedClassTable(n) == Table(n, <<VarT, VarA>>, <<VarY>>, "T", DailyTime(n))
\* a table without time variable, with a continuous and a discrete attribute
PlainTable(n) == Table(n, <<VarA, VarD>>, <<>>, "", <<>>)
\* a table without time variable whose only variable is the class y
ClassOnlyTable(n) == Table(n, <<>>, <<VarY>>, "", <<>>)

\* the state of a widget that was created with the given settings and has
\* not received any input yet
Created ==
    /\ data = NoData
    /\ var_model = <<>>
    /\ transformations = <<>>
    /\ selection = {}
    /\ var_hints = <<>>
    /\ naming_visible = FALSE
    /\ warnings = {}
    /\ inapplicable_shown = <<>>
    /\ output = NoneTs
    /\ status = "idle"

\* the warnings, output and status that a first commit with outcome o leaves
Sent(o) ==
    /\ warnings = o.warnings
    /\ inapplicable_shown = o.inapplicable
    /\ output = IF o.raised THEN NoneTs ELSE o.ts
    /\ status = IF o.raised THEN "raised" ELSE "sent"

\* the state of a widget that was created with the given settings and then
\* received the table `data` (set_data, with no hints stored)
Loaded ==
    /\ var_model = ModelVariables(data)
    /\ transformations = [i \in DOMAIN var_model |-> {}]
    /\ selection = {}
    /\ var_hints = <<>>
    /\ naming_visible = NamingVisibility(method, period_width)
    /\ Sent(CommitOutcome(Widget))

(***************************************************************************)
(* Spec: the whole widget.                                                 *)
(***************************************************************************)
WidgetTables ==
    {NoData, TimedTable(0), TimedTable(MaxWidgetRows), PlainTable(MaxWidgetRows)}
WidgetWidths == {MinWidth, MaxWidgetWidth}
WidgetKinds == {"mode", "cumsum"}
\* periods without names: the use_names check box stays hidden
WidgetPeriods == {"Years", "Day of month"}

Init ==
    /\ method \in Methods
    /\ window_width \in WidgetWidths
    /\ keep_instances \in KeepOptions
    /\ block_width \in WidgetWidths
    /\ ref_instance \in RefOptions
    /\ period_width \in WidgetPeriods
    /\ use_names = TRUE
    /\ Created

SetData == \E d \in WidgetTables : set_data(d)
MethodRadio == \E m \in Methods : MethodChanged(m)
WindowWidth == \E w \in WidgetWidths : _window_width_changed(w)
KeepInstances == \E k \in KeepOptions : _keep_instances_changed(k)
BlockWidth == \E w \in WidgetWidths : _use_sequential_blocks(w, ref_instance)
RefInstance == \E r \in RefOptions : _use_sequential_blocks(block_width, r)
TimePeriod == \E p \in WidgetPeriods : _time_period_changed(p)
Checkbox == \E t \in WidgetKinds, state \in BOOLEAN : _checkbox_changed(t, state)
Selection == \E sel \in SUBSET DOMAIN var_model : _selection_changed(sel)

Next ==
    \/ SetData
    \/ MethodRadio
    \/ WindowWidth
    \/ KeepInstances
    \/ BlockWidth
    \/ RefInstance
    \/ TimePeriod
    \/ Checkbox
    \/ Selection

Spec == Init /\ [][Next]_vars

(***************************************************************************)
(* SpecSliding: the sliding window engine on tables of 1..MaxRows rows.    *)
(***************************************************************************)
SlidingTables ==
    {TimedClassTable(n) : n \in 1..MaxRows} \cup {ClassOnlyTable(n) : n \in 1..2}
Widths == MinWidth..MaxWidth
EngineKinds == {"mean", "cumsum"}

InitSliding ==
    /\ data \in SlidingTables
    /\ method = SlidingWindow
    /\ window_width \in Widths
    /\ keep_instances \in KeepOptions
    /\ block_width = MinWidth
    /\ ref_instance = DiscardOriginal
    /\ period_width = "Years"
    /\ use_names = TRUE
    /\ Loaded

SlidingWidth == \E w \in Widths : _window_width_changed(w)
SlidingCheckbox ==
    \E t \in EngineKinds, state \in BOOLEAN : _checkbox_changed(t, state)

NextSliding ==
    \/ SlidingWidth
    \/ KeepInstances
    \/ SlidingCheckbox
    \/ Selection

SpecSliding == InitSliding /\ [][NextSliding]_vars

(***************************************************************************)
(* SpecBlocks: the sequential blocks engine on tables of 1..MaxRows rows.  *)
(***************************************************************************)
BlockTables == {TimedClassTable(n) : n \in 1..MaxRows}

InitBlocks ==
    /\ data \in BlockTables
    /\ method = SequentialBlocks
    /\ window_width = MinWidth
    /\ keep_instances = KeepComplete
    /\ block_width \in Widths
    /\ ref_instance \in RefOptions
    /\ period_width = "Years"
    /\ use_names = TRUE
    /\ Loaded

BlocksWidth == \E width \in Widths : _use_sequential_blocks(width, ref_instance)

NextBlocks ==
    \/ BlocksWidth
    \/ RefInstance
    \/ SlidingCheckbox
    \/ Selection

SpecBlocks == InitBlocks /\ [][NextBlocks]_vars

(***************************************************************************)
(* SpecPeriod: the period engine on time series of up to MaxPeriodRows     *)
(* rows whose time column is any non-decreasing sequence of TimeStamps.    *)
(***************************************************************************)
\* 1970-12-15 12:00:00, 1971-01-10 00:00:00, 1971-01-10 08:30:15,
\* 1972-02-29 06:00:00
TimeStamps == {30110400, 32313600, 32344215, 68191200}

TimeColumns(n) ==
    {t \in [1..n -> TimeStamps] : \A i \in 1..(n - 1) : t[i] <= t[i + 1]}

PeriodTables ==
    {Table(Len(t), <<VarT, VarA>>, <<>>, "T", t) :
        t \in UNION {TimeColumns(n) : n \in 0..MaxPeriodRows}}
    \cup {PlainTable(1)}

InitPeriod ==
    /\ data \in PeriodTables
    /\ method = TimePeriods
    /\ window_width = MinWidth
    /\ keep_instances = KeepComplete
    /\ block_width = MinWidth
    /\ ref_instance = DiscardOriginal
    /\ period_width \in Range(PeriodNames)
    /\ use_names \in BOOLEAN
    /\ Loaded

PeriodWidth == \E p \in Range(PeriodNames) : _time_period_changed(p)

NextPeriod ==
    \/ PeriodWidth
    \/ UseNamesChanged
    \/ SlidingCheckbox
    \/ Selection

SpecPeriod == InitPeriod /\ [][NextPeriod]_vars

(***************************************************************************)
(* SpecCatalog: every kind of the catalog, in the two engines that need a  *)
(* block_transform; at most MaxSelected kinds are requested at a time.     *)
(***************************************************************************)
CatalogTables == {TimedTable(MaxCatalogRows)}

InitCatalog ==
    /\ data \in CatalogTables
    /\ method \in {SequentialBlocks, TimePeriods}
    /\ window_width = MinWidth
    /\ keep_instances = KeepComplete
    /\ block_width = MinWidth
    /\ ref_instance \in {DiscardOriginal, KeepLast}
    /\ period_width = "Years"
    /\ use_names = TRUE
    /\ Loaded

CatalogMethod == \E m \in {SequentialBlocks, TimePeriods} : MethodChanged(m)
CatalogCheckbox ==
    \E t \in AggKinds, state \in BOOLEAN : _checkbox_changed(t, state)

NextCatalog ==
    \/ CatalogMethod
    \/ CatalogCheckbox
    \/ Selection

SpecCatalog == InitCatalog /\ [][NextCatalog]_vars

(***************************************************************************)
(* SpecOrder: several kinds requested for two variables, in any order of   *)
(* clicks, in the three engines.                                           *)
(***************************************************************************)
OrderKinds == {"mean", "mode", "lin. MA", "cumsum"}

InitOrder ==
    /\ data = TimedClassTable(MaxCatalogRows)
    /\ method \in Methods
    /\ window_width = MinWidth
    /\ keep_instances \in {DiscardOriginal, KeepAll}
    /\ block_width = MinWidth
    /\ ref_instance =
          IF keep_instances = DiscardOriginal THEN DiscardOriginal ELSE KeepLast
    /\ period_width = "Years"
    /\ use_names = TRUE
    /\ Loaded

OrderCheckbox ==
    \E t \in OrderKinds, state \in BOOLEAN : _checkbox_changed(t, state)

NextOrder ==
    \/ MethodRadio
    \/ OrderCheckbox
    \/ Selection

SpecOrder == InitOrder /\ [][NextOrder]_vars

(***************************************************************************)
(* SpecHints: a widget whose persisted var_hints may name a kind that the  *)
(* catalog does not hold (var_hints is a schema-only setting, restored     *)
(* as it was saved).                                                       *)
(***************************************************************************)
UnknownKind == "rolling"
HintKinds == {"mean", UnknownKind}

PersistedHints ==
    {<<>>} \cup {[key \in {_varkey(VarA)} |-> h] :
                    h \in (SUBSET HintKinds) \ {{}}}

InitHints ==
    /\ method \in Methods
    /\ window_width = MinWidth
    /\ keep_instances \in KeepOptions
    /\ block_width = MinWidth
    /\ ref_instance = DiscardOriginal
    /\ period_width = "Years"
    /\ use_names = TRUE
    /\ var_hints \in PersistedHints
    /\ data = NoData
    /\ var_model = <<>>
    /\ transformations = <<>>
    /\ selection = {}
    /\ naming_visible = FALSE
    /\ warnings = {}
    /\ inapplicable_shown = <<>>
    /\ output = NoneTs
    /\ status = "idle"

NextHints ==
    \/ SetData
    \/ MethodRadio
    \/ Checkbox
    \/ Selection

SpecHints == InitHints /\ [][NextHints]_vars

(***************************************************************************)
(* Properties.  They are stated on what the last commit left: `status`,    *)
(* `output`, `warnings` and `inapplicable_shown`, against the settings and *)
(* the input table the commit ran on.                                      *)
(***************************************************************************)
FourWarnings ==
    {"no_aggregations", "inapplicable_aggregations", "window_to_large",
     "block_to_large"}

\* the columns of an output table that are original columns / aggregates
OrigCols(ts) == {i \in DOMAIN ts.attributes : ts.attributes[i].name.kind = ""}
AggCols(ts) == {i \in DOMAIN ts.attributes : ts.attributes[i].name.kind # ""}

\* the output has the aggregate column of variable `var` and kind `kind`
HasColumn(ts, var, kind) ==
    \E i \in DOMAIN ts.attributes :
        ts.attributes[i].name.var = var /\ ts.attributes[i].name.kind = kind

\* the kinds requested for any variable
Requested == UNION {transformations[i] : i \in DOMAIN transformations}

\* the windowed aggregate of `kind` over rows j-1 .. j+width-2, for j = 1..cnt
Windows(var, kind, width, cnt) ==
    [j \in 1..cnt |-> Cell("win", var, kind, j - 1, j + width - 2)]

Padding(k) == [j \in 1..k |-> NaN]

\* C1, as the specification states it: whenever commit sends None, at least
\* one of the four warnings is shown.
C1_NullOutputHasWarning ==
    (status = "sent" /\ output.isNone) => warnings \cap FourWarnings # {}

\* C1, amended: commit sends None without any warning exactly when there is
\* no input table or the input table has zero rows; when it sends None for
\* an input table with rows, at least one of the four warnings is shown.
C1_NullOutputHasWarningOnRows ==
    (status = "sent" /\ output.isNone) =>
        IF data.isNone \/ data.n = 0
        THEN warnings = {}
        ELSE warnings \cap FourWarnings # {}

C1_Witness ==
    /\ status = "sent"
    /\ output.isNone
    /\ data.n > 0
    /\ method = SlidingWindow
    /\ "no_aggregations" \in warnings

\* C2: in the sliding window and in the sequential blocks engine, for every
\* setting of keep_instances / ref_instance, a run that produces no aggregate
\* column shows no_aggregations and returns None.
C2_NoAggregatesNoOutput ==
    (/\ status # "idle"
     /\ ~data.isNone /\ data.n > 0
     /\ \/ method = SlidingWindow /\ Requested = {}
        \/ /\ method = SequentialBlocks
           /\ block_width <= data.n
           /\ \A k \in Requested : ~AggOptions[k].block_transform)
    => /\ status = "sent"
       /\ output.isNone
       /\ "no_aggregations" \in warnings

\* the offset of the representative row within its block
RefOffset ==
    CASE ref_instance = KeepFirst -> 0
      [] ref_instance = KeepMiddle -> block_width \div 2
      [] ref_instance = KeepLast -> block_width - 1

\* C3: in the sequential blocks engine, for block_width w >= 2, N >= w rows
\* and ref_instance First, Middle or Last, the original rows kept are exactly
\* k*w + offset for 0 <= k < N div w, one per complete block.
C3_RepresentativeRows ==
    (/\ status # "idle"
     /\ method = SequentialBlocks
     /\ ref_instance \in {KeepFirst, KeepMiddle, KeepLast}
     /\ block_width >= 2
     /\ data.n >= block_width)
    => /\ status = "sent"
       /\ ~output.isNone
       /\ output.rows =
            [j \in 1..(data.n \div block_width) |->
                (j - 1) * block_width + RefOffset]
       /\ \A i \in OrigCols(output) :
            output.columns[i] =
                [j \in 1..(data.n \div block_width) |->
                    Cell("orig", output.attributes[i].name.var, "",
                         (j - 1) * block_width + RefOffset,
                         (j - 1) * block_width + RefOffset)]
       /\ \A i \in AggCols(output) :
            Len(output.columns[i]) = data.n \div block_width

\* C4: in the sliding window engine with 2 <= window_width w <= N rows, all
\* columns of the output have the same number of rows; with Discard there are
\* no original columns and N-w+1 rows; with KeepComplete the original columns
\* are rows w-1..N-1 and the aggregate of output row j is the window that ends
\* at original row j+w-1; with KeepAll the original columns are all N rows
\* and a windowed aggregate is w-1 missing values, then the N-w+1 windows.
C4_SlidingAlignment ==
    (/\ status # "idle"
     /\ method = SlidingWindow
     /\ window_width >= 2
     /\ window_width <= data.n)
    => /\ status = "sent"
       /\ ~output.isNone =>
          /\ \A i, j \in DOMAIN output.columns :
                Len(output.columns[i]) = Len(output.columns[j])
          /\ keep_instances = DiscardOriginal =>
                /\ OrigCols(output) = {}
                /\ ~output.keeps_rows
                /\ NRows(output) = data.n - window_width + 1
          /\ keep_instances # DiscardOriginal =>
                /\ Cardinality(OrigCols(output)) = Len(data.attributes)
                /\ output.keeps_rows
          /\ keep_instances = KeepComplete =>
                /\ output.rows =
                     [j \in 1..(data.n - window_width + 1) |->
                         j + window_width - 2]
                /\ \A i \in OrigCols(output) :
                     output.columns[i] =
                        [j \in 1..(data.n - window_width + 1) |->
                            Cell("orig", output.attributes[i].name.var, "",
                                 j + window_width - 2, j + window_width - 2)]
          /\ keep_instances = KeepAll =>
                /\ output.rows = [j \in 1..data.n |-> j - 1]
                /\ \A i \in OrigCols(output) :
                     output.columns[i] =
                        [j \in 1..data.n |->
                            Cell("orig", output.attributes[i].name.var, "",
                                 j - 1, j - 1)]
                /\ \A i \in AggCols(output) :
                     output.attributes[i].name.kind \notin {"cumsum", "cumprod"}
                     => output.columns[i] =
                            Padding(window_width - 1)
                            \o Windows(output.attributes[i].name.var,
                                       output.attributes[i].name.kind,
                                       window_width,
                                       data.n - window_width + 1)
          /\ keep_instances # KeepAll =>
                \A i \in AggCols(output) :
                     output.columns[i] =
                        Windows(output.attributes[i].name.var,
                                output.attributes[i].name.kind,
                                window_width, data.n - window_width + 1)

C4_Witness ==
    /\ status = "sent"
    /\ method = SlidingWindow
    /\ keep_instances = KeepAll
    /\ window_width = 3
    /\ data.n = 4
    /\ ~output.isNone
    /\ HasColumn(output, "a", "mean")
    /\ HasColumn(output, "a", "")

\* C5: with window_width > N rows the sliding window engine shows
\* window_to_large and does not abort: with KeepComplete its table has zero
\* rows, with KeepAll its table has all N original rows and every aggregate
\* column has N values.
C5_WindowTooLargeProceeds ==
    (/\ status # "idle"
     /\ method = SlidingWindow
     /\ ~data.isNone /\ data.n > 0
     /\ window_width > data.n)
    => /\ "window_to_large" \in warnings
       /\ status = "sent"
       /\ (~output.isNone /\ keep_instances = KeepComplete)
             => \A i \in DOMAIN output.columns : Len(output.columns[i]) = 0
       /\ (~output.isNone /\ keep_instances = KeepAll)
             => /\ output.rows = [j \in 1..data.n |-> j - 1]
                /\ \A i \in DOMAIN output.columns :
                      Len(output.columns[i]) = data.n

\* C6: in the sequential blocks and in the period engine every requested
\* kind without block_transform is left out of the output and named in
\* inapplicable_aggregations, which is shown if and only if such a kind is
\* requested, and the run continues: every other requested kind yields its
\* column.
C6_InapplicableExcluded ==
    (/\ status # "idle"
     /\ method \in {SequentialBlocks, TimePeriods}
     /\ ~data.isNone /\ data.n > 0
     /\ method = SequentialBlocks => block_width <= data.n
     /\ method = TimePeriods => data.time_variable # "")
    => /\ "inapplicable_aggregations" \in warnings
          <=> (\E k \in Requested : ~AggOptions[k].block_transform)
       /\ Range(inapplicable_shown) =
             {AggOptions[k].long_desc :
                 k \in {t \in Requested : ~AggOptions[t].block_transform}}
       /\ status = "sent"
       /\ \A i \in DOMAIN var_model : \A k \in transformations[i] :
             IF AggOptions[k].block_transform
             THEN ~output.isNone /\ HasColumn(output, var_model[i].name, k)
             ELSE output.isNone \/ ~HasColumn(output, var_model[i].name, k)

\* C7, as the specification states it: in the sequential blocks and period
\* engines a requested kind is excluded as inapplicable if and only if it is
\* cumsum or cumprod, and each of the other sixteen kinds yields a column.
C7_OnlyCumulativeInapplicable ==
    (status = "sent" /\ method \in {SequentialBlocks, TimePeriods}
     /\ block_width <= data.n)
    => /\ Cardinality(AggKinds \ {"cumsum", "cumprod"}) = 16
       /\ \A i \in DOMAIN var_model : \A k \in transformations[i] :
             IF k \in {"cumsum", "cumprod"}
             THEN /\ LongDesc(k) \in Range(inapplicable_shown)
                  /\ output.isNone \/ ~HasColumn(output, var_model[i].name, k)
             ELSE /\ LongDesc(k) \notin Range(inapplicable_shown)
                  /\ ~output.isNone
                  /\ HasColumn(output, var_model[i].name, k)

\* C7, amended: the kinds without block_transform are exactly lin. MA,
\* exp. MA, cumsum and cumprod: in the sequential blocks and period engines a
\* requested kind is excluded as inapplicable if and only if it is one of
\* these four, and each of the other fourteen kinds yields a column in every
\* table the engine returns.
C7_FourKindsInapplicable ==
    (status = "sent" /\ method \in {SequentialBlocks, TimePeriods}
     /\ block_width <= data.n)
    => /\ Cardinality(AggKinds \ {"lin. MA", "exp. MA", "cumsum", "cumprod"})
             = 14
       /\ \A i \in DOMAIN var_model : \A k \in transformations[i] :
             IF k \in {"lin. MA", "exp. MA", "cumsum", "cumprod"}
             THEN /\ LongDesc(k) \in Range(inapplicable_shown)
                  /\ output.isNone \/ ~HasColumn(output, var_model[i].name, k)
             ELSE /\ LongDesc(k) \notin Range(inapplicable_shown)
                  /\ ~output.isNone
                  /\ HasColumn(output, var_model[i].name, k)

C7_Witness ==
    /\ status = "sent"
    /\ method = TimePeriods
    /\ transformations = << {"lin. MA", "median"} >>
    /\ HasColumn(output, "a", "median")
    /\ inapplicable_shown = << "Linear MA" >>

\* C8: in the sliding window engine a kind with a cumulative form (cumsum,
\* cumprod) is computed cumulatively over the whole column, N values and no
\* missing-value head, if and only if keep_instances is KeepAll; with Discard
\* and KeepComplete it is computed as the windowed transform of width
\* window_width, and no warning is shown for it.  The other kinds are always
\* computed as the windowed transform.
C8_CumulativeOnlyWithKeepAll ==
    (status = "sent" /\ method = SlidingWindow /\ ~data.isNone /\ data.n > 0)
    => /\ "inapplicable_aggregations" \notin warnings
       /\ inapplicable_shown = <<>>
       /\ \A i \in DOMAIN var_model : \A k \in transformations[i] :
             /\ ~output.isNone
             /\ HasColumn(output, var_model[i].name, k)
       /\ ~output.isNone =>
          \A i \in AggCols(output) :
             IF /\ output.attributes[i].name.kind \in {"cumsum", "cumprod"}
                /\ keep_instances = KeepAll
             THEN output.columns[i] =
                    [j \in 1..data.n |->
                        Cell("cum", output.attributes[i].name.var,
                             output.attributes[i].name.kind, 0, j - 1)]
             ELSE output.columns[i] =
                    (IF keep_instances = KeepAll
                     THEN Padding(window_width - 1) ELSE <<>>)
                    \o Windows(output.attributes[i].name.var,
                               output.attributes[i].name.kind,
                               window_width,
                               IF data.n < window_width THEN 0
                               ELSE data.n - window_width + 1)

C8_Witness ==
    /\ status = "sent"
    /\ method = SlidingWindow
    /\ keep_instances = KeepAll
    /\ data.n = 3
    /\ window_width = 2
    /\ ~output.isNone
    /\ HasColumn(output, "a", "cumsum")
    /\ HasColumn(output, "a", "mean")

\* the grouping key of input row i as the key column shows it
ShownKey(i) ==
    PeriodKey(Widget, data.time[i])
    + (IF period_width = "Month of year" /\ ~use_names THEN 1 ELSE 0)

\* C9: in the period engine, for every input table with rows, the output has
\* one row per distinct grouping key, the keys are strictly ascending, the
\* Instance count of a row is the number of input rows with the row's key,
\* and the Instance counts sum to the number of input rows.
C9_PeriodGroups ==
    (/\ status # "idle"
     /\ method = TimePeriods
     /\ ~data.isNone /\ data.n > 0
     /\ data.time_variable # "")
    => /\ status = "sent"
       /\ ~output.isNone
       /\ Len(output.columns) >= 2
       /\ Len(output.columns[1]) = Cardinality({ShownKey(i) : i \in 1..data.n})
       /\ {output.columns[1][g].lo : g \in DOMAIN output.columns[1]}
             = {ShownKey(i) : i \in 1..data.n}
       /\ \A g \in 1..(Len(output.columns[1]) - 1) :
             output.columns[1][g].lo < output.columns[1][g + 1].lo
       /\ \A i \in DOMAIN output.columns :
             Len(output.columns[i]) = Len(output.columns[1])
       /\ \A g \in DOMAIN output.columns[2] :
             /\ output.columns[2][g].t = "count"
             /\ output.columns[2][g].lo =
                   Cardinality({i \in 1..data.n :
                                   ShownKey(i) = output.columns[1][g].lo})
       /\ Cardinality({<<g, c>> \in (DOMAIN output.columns[2]) \X (1..data.n) :
                          c <= output.columns[2][g].lo}) = data.n

C9_Witness ==
    /\ status = "sent"
    /\ method = TimePeriods
    /\ period_width = "Month of year"
    /\ data.n = 3
    /\ ~output.isNone
    /\ Len(output.columns[1]) = 2
    /\ output.columns[2][1].lo = 2

\* C10: in the period engine, on an input table with rows, an empty selection
\* of aggregates, or one whose kinds are all inapplicable, is no error: the
\* engine returns a table of exactly the two columns period key and Instance
\* count and does not show no_aggregations; None is sent only when the input
\* has zero rows.
C10_CountOnlyOutput ==
    (/\ status # "idle"
     /\ method = TimePeriods
     /\ ~data.isNone
     /\ data.time_variable # "")
    => /\ status = "sent"
       /\ output.isNone <=> data.n = 0
       /\ "no_aggregations" \notin warnings
       /\ (data.n > 0 /\ \A k \in Requested : ~AggOptions[k].block_transform)
             => /\ Len(output.attributes) = 2
                /\ Len(output.columns) = 2
                /\ output.attributes[1].name = Name(period_width, "")
                /\ output.attributes[2].name = Name("Instance count", "")
                /\ \A g \in DOMAIN output.columns[1] :
                      output.columns[1][g].t = "key"
                /\ \A g \in DOMAIN output.columns[2] :
                      output.columns[2][g].t = "count"

C10_Witness ==
    /\ status = "sent"
    /\ method = TimePeriods
    /\ data.n = 2
    /\ Requested = {"cumsum"}
    /\ ~output.isNone
    /\ Len(output.columns) = 2
    /\ warnings = {"inapplicable_aggregations"}

\* the calendar month, day of month and hour (UTC) of the four TimeStamps,
\* read off the calendar
MonthOf(t) ==
    CASE t = 30110400 -> 12 [] t = 32313600 -> 1
      [] t = 32344215 -> 1 [] t = 68191200 -> 2
DayOf(t) ==
    CASE t = 30110400 -> 15 [] t = 32313600 -> 10
      [] t = 32344215 -> 10 [] t = 68191200 -> 29
HourOf(t) ==
    CASE t = 30110400 -> 12 [] t = 32313600 -> 0
      [] t = 32344215 -> 8 [] t = 68191200 -> 6

\* the values of the key column of the output
KeysShown == {output.columns[1][g].lo : g \in DOMAIN output.columns[1]}

\* C11: for 'Month of year' the key column holds the month m (1..12) of a
\* row when use_names is off, and m-1, the index of the month's name in the
\* list of names (January first), when use_names is on; for the periodic
\* descriptors with value_as_period in general the key is the calendar field
\* plus value_offset.
C11_MonthKeys ==
    (/\ status # "idle"
     /\ method = TimePeriods
     /\ ~data.isNone /\ data.n > 0
     /\ data.time_variable # "")
    => /\ status = "sent" /\ ~output.isNone
       /\ (period_width = "Month of year" /\ ~use_names) =>
             /\ KeysShown = {MonthOf(data.time[i]) : i \in 1..data.n}
             /\ output.attributes[1].is_continuous
       /\ (period_width = "Month of year" /\ use_names) =>
             /\ KeysShown = {MonthOf(data.time[i]) - 1 : i \in 1..data.n}
             /\ KeysShown \subseteq 0..11
             /\ ~output.attributes[1].is_continuous
       /\ period_width = "Day of month" =>
             KeysShown = {DayOf(data.time[i]) + 0 : i \in 1..data.n}
       /\ period_width = "Hour of day" =>
             KeysShown = {HourOf(data.time[i]) + 0 : i \in 1..data.n}

C11_Witness ==
    /\ status = "sent"
    /\ method = TimePeriods
    /\ period_width = "Month of year"
    /\ ~use_names
    /\ ~output.isNone
    /\ KeysShown = {1, 12}

\* the position of a kind in the catalog and of a variable in the model
CatalogIndex(kind) == CHOOSE i \in DOMAIN AggOrder : AggOrder[i] = kind
ModelIndex(name) == CHOOSE i \in DOMAIN var_model : var_model[i].name = name

\* the (variable, kind) pairs that the current selection requests from the
\* current engine
RequestedPairs ==
    {<<var_model[i].name, k>> : i \in DOMAIN var_model, k \in AggKinds}
    \cap {p \in {var_model[i].name : i \in DOMAIN var_model} \X AggKinds :
             /\ p[2] \in transformations[ModelIndex(p[1])]
             /\ method # SlidingWindow =>
                   p[2] \notin {"lin. MA", "exp. MA", "cumsum", "cumprod"}}

\* C12: the aggregate columns of the output are those of the current
\* per-variable sets of kinds, whatever clicks led there; the kinds of one
\* variable come in the registration order of the catalog, and every column
\* carries the name of its own variable and kind, in all three engines.
C12_CatalogOrder ==
    (status = "sent" /\ ~output.isNone)
    => /\ {<<output.attributes[i].name.var, output.attributes[i].name.kind>> :
              i \in AggCols(output)} = RequestedPairs
       /\ Cardinality(AggCols(output)) = Cardinality(RequestedPairs)
       /\ \A i, j \in AggCols(output) :
             i < j =>
                \/ ModelIndex(output.attributes[i].name.var)
                      < ModelIndex(output.attributes[j].name.var)
                \/ /\ output.attributes[i].name.var
                         = output.attributes[j].name.var
                   /\ CatalogIndex(output.attributes[i].name.kind)
                         < CatalogIndex(output.attributes[j].name.kind)
       /\ \A i \in AggCols(output) :
             /\ output.attributes[i].name.suffix = 0
             /\ \A g \in DOMAIN output.columns[i] :
                   output.columns[i][g] # NaN =>
                      /\ output.columns[i][g].var
                            = output.attributes[i].name.var
                      /\ output.columns[i][g].kind
                            = output.attributes[i].name.kind

C12_Witness ==
    /\ status = "sent"
    /\ method = SlidingWindow
    /\ transformations = << {"cumsum", "mean"}, {"mode", "lin. MA"} >>
    /\ ~output.isNone
    /\ Cardinality(AggCols(output)) = 4

\* C13: when the selection of a variable names a kind that the catalog does
\* not hold, the run of an engine ends in a fatal error (nothing is sent): it
\* never sends a table computed as if the kind had not been requested.
C13_UnknownKindIsFatal ==
    (/\ status # "idle"
     /\ ~data.isNone /\ data.n > 0
     /\ \E i \in DOMAIN transformations : transformations[i] \ AggKinds # {})
    => status = "raised"

\* C14: whenever commit dispatches to the period engine (method is
\* TimePeriods and the table has rows), the table has a time variable.
C14_PeriodHasTimeVariable ==
    (/\ status # "idle"
     /\ method = TimePeriods
     /\ ~data.isNone /\ data.n > 0)
    => data.time_variable # ""

\* var_hints agrees with the model: a variable with kinds has them as its
\* entry, a variable without kinds has no entry
HintsAgree ==
    \A i \in DOMAIN var_model :
        IF transformations[i] = {}
        THEN _varkey(var_model[i]) \notin DOMAIN var_hints
        ELSE /\ _varkey(var_model[i]) \in DOMAIN var_hints
             /\ var_hints[_varkey(var_model[i])] = transformations[i]

\* the keys whose entry differs between two values of var_hints
HintsChanged(old, new) ==
    {key \in (DOMAIN old) \cup (DOMAIN new) :
        \/ key \notin DOMAIN old
        \/ key \notin DOMAIN new
        \/ old[key] # new[key]}

\* C15: starting with empty var_hints, after any sequence of set_data and
\* check box events var_hints holds, for every variable of the model, exactly
\* its current kinds, and no entry when it has none; a check box event
\* changes only the entries of the selected variables; set_data leaves
\* var_hints unchanged.
C15_HintsFollowSelection ==
    /\ []HintsAgree
    /\ [][\A t \in WidgetKinds, state \in BOOLEAN :
             _checkbox_changed(t, state) =>
                HintsChanged(var_hints, var_hints')
                   \subseteq {_varkey(var_model[i]) : i \in selection}]_vars
    /\ [][(\E d \in WidgetTables : set_data(d)) => var_hints' = var_hints]_vars

C15_Witness ==
    /\ status = "sent"
    /\ data = PlainTable(MaxWidgetRows)
    /\ transformations = << {"cumsum", "mode"}, {"mode"} >>
    /\ DOMAIN var_hints = {_varkey(VarA), _varkey(VarD)}
    /\ var_hints[_varkey(VarA)] = {"cumsum", "mode"}

=============================================================================
